---- MODULE Spec2Model ----
(***************************************************************************)
(* Model of recipe_scraping_script.py: the fetch-retry-extract-aggregate-  *)
(* load pipeline.  One action per statement group of the script; the       *)
(* program counter pc names the next statement group to run.               *)
(***************************************************************************)
EXTENDS Integers, Sequences, FiniteSets, TLC

\* ------------------------------------------------------------- bounds
\* Recipe URLs are 1..NumLinks; a listing page links to at most
\* MaxLinksPerPage of them (repetitions allowed).
NumLinks == 3
MaxLinksPerPage == 2

\* ------------------------------------------------- program constants
max_retries == 3
retry_delay == 5
rate_limit_delay == 1
ResultsPerPage == 30

\* ---------------------------------------------------- the site's data
Links == 1..NumLinks

\* The link lists a listing page can carry, in page order.
RECURSIVE SeqsUpTo(_, _)
SeqsUpTo(S, n) ==
    IF n = 0 THEN {<< >>}
    ELSE LET shorter == SeqsUpTo(S, n - 1)
         IN  shorter \cup {Append(s, x) : s \in {t \in shorter : Len(t) = n - 1}, x \in S}

LinkLists == SeqsUpTo(Links, MaxLinksPerPage)

\* Result counts the first listing page can report.
ResultCounts == {0, 1, ResultsPerPage, ResultsPerPage + 1}

\* The first listing page's results paragraph: absent, too short to have a
\* sixth token, a sixth token that is no integer, or a well-formed count.
FirstDocs ==
    {[found |-> FALSE, tokens |-> 0, numeric |-> FALSE, number |-> 0],
     [found |-> TRUE, tokens |-> 3, numeric |-> FALSE, number |-> 0],
     [found |-> TRUE, tokens |-> 7, numeric |-> FALSE, number |-> 0]}
    \cup {[found |-> TRUE, tokens |-> 7, numeric |-> TRUE, number |-> n] : n \in ResultCounts}

Undefined == [defined |-> FALSE]

\* Python's None, as a nutrition value.
None == <<"None">>

nutritional_desired_keys ==
    <<"kcal", "fat", "saturates", "carbs", "sugars", "fibre", "protein", "salt">>

keys == nutritional_desired_keys

Range(s) == {s[i] : i \in 1..Len(s)}

\* ------------------------------------------ the extractors (scripts/*)
\* Total, side-effect-free functions of the fetched recipe document; the
\* document of link l is identified by l.
get_recipe_name(doc) == <<"name", doc>>

get_recipe_cooking_time(doc) == <<"time", doc>>

\* Raw name/value cells, paired by position.  Texts are sequences of
\* characters.  Every link reports kcal and fat; odd links also report a
\* nutrient outside the schema, even links also report salt.
get_recipe_nutritional_values(doc) ==
    <<  <<"kcal", <<ToString(doc), "5", "0">>>>,
        <<"fat", <<ToString(doc), "2", "g">>>> >>
    \o (IF doc % 2 = 1 THEN << <<"iron", <<"1", "g">>>> >>
                       ELSE << <<"salt", <<"0", ".", "5", "g">>>> >>)

\* Category map of a recipe: every link reports Vegetarian, even links
\* also report Vegan, so the key sets differ from recipe to recipe.
get_recipe_categories(doc) ==
    [c \in {"Vegetarian"} \cup (IF doc % 2 = 0 THEN {"Vegan"} ELSE {}) |-> doc % 3 = 1]

\* Ingredient texts: link l lists (l % 3) ingredients.
get_recipe_ingredients(doc) == [i \in 1..(doc % 3) |-> <<"ingredient", doc, i>>]

\* ------------------------------------------------------ program state
VARIABLES
    pc,                          \* the statement group to run next
    exit_status,                 \* "running", "ok", or why the process stopped
    attempt,                     \* loop variable of the current retry loop
    base_soup,                   \* parsed first listing page
    number_of_recipes,
    number_of_pages,             \* page_list = 1..number_of_pages
    page_number,
    soup,                        \* parsed listing page: its link list
    new_recipe_links,
    link_index,                  \* position of `link` in new_recipe_links
    used_recipe_links,
    recipe_names,
    successful_links,
    recipe_cooking_times,
    recipe_nutritional_data,
    recipe_category_information,
    recipe_ingredients,
    recipe_info_df,
    nutrition_df,
    ingredients_df,
    db,                          \* committed contents of the three tables
    txn,                         \* tables deleted in the open transaction
    \* observations of the run (not program variables)
    requests_issued,             \* requests of the current fetch invocation
    fetch_outcome,               \* "pending", "success", "failure"
    since_request,               \* delay elapsed since the last request
    fetched_ok,                  \* links whose fetch succeeded, in order
    exhausted_links,             \* number of links whose every attempt failed
    marked_page,                 \* link -> page on which it was first marked visited
    page_failed,                 \* pages whose every attempt failed
    listing_requested,           \* a page of the page loop was requested
    recipe_requested,            \* a recipe link was requested
    store_ops,                   \* store operations issued, in order
    pages_visited,               \* page numbers requested, in order of first request
    count_requests,              \* whether total_requests is kept
    total_requests,              \* requests issued by the run so far
    \* the site (fixed during a run)
    site_nutrition,              \* link -> the nutrition cells of its recipe page
    site_max_links               \* most links a listing page carries

prog_vars ==
    <<pc, exit_status, attempt, base_soup, number_of_recipes, number_of_pages,
      page_number, soup, new_recipe_links, link_index>>

data_vars ==
    <<used_recipe_links, recipe_names, successful_links, recipe_cooking_times,
      recipe_nutritional_data, recipe_category_information, recipe_ingredients>>

frame_vars == <<recipe_info_df, nutrition_df, ingredients_df>>

store_vars == <<db, txn, store_ops>>

obs_vars ==
    <<requests_issued, fetch_outcome, since_request, fetched_ok, exhausted_links,
      marked_page, page_failed, listing_requested, recipe_requested>>

count_vars == <<pages_visited, total_requests>>

site_vars == <<site_nutrition, site_max_links, count_requests>>

vars == <<prog_vars, data_vars, frame_vars, store_vars, obs_vars, count_vars, site_vars>>

\* The store before the run: one recipe of an earlier scrape (link 0).
PriorDb ==
    [recipe_info |-> << [recipe_id |-> 1, RecipeName |-> <<"name", 0>>, RecipeLink |-> 0,
                         CookingTime |-> <<"time", 0>>,
                         categories |-> [c \in {"Vegetarian"} |-> TRUE]] >>,
     nutrition |-> << [recipe_id |-> 1,
                       columns |-> [c \in {"kcal", "Fat(g)", "Saturates(g)", "Carbs(g)",
                                           "Sugars(g)", "Fibre(g)", "Protein(g)", "Salt(g)"}
                                    |-> None]] >>,
     ingredients |-> << [recipe_id |-> 1, Ingredient |-> <<"ingredient", 0, 1>>] >>]

Init ==
    /\ pc = "first_fetch"
    /\ exit_status = "running"
    /\ attempt = 0
    /\ base_soup = Undefined
    /\ number_of_recipes = 0
    /\ number_of_pages = 0
    /\ page_number = 0
    /\ soup = Undefined
    /\ new_recipe_links = << >>
    /\ link_index = 0
    /\ used_recipe_links = << >>
    /\ recipe_names = << >>
    /\ successful_links = << >>
    /\ recipe_cooking_times = << >>
    /\ recipe_nutritional_data = << >>
    /\ recipe_category_information = << >>
    /\ recipe_ingredients = << >>
    /\ recipe_info_df = << >>
    /\ nutrition_df = << >>
    /\ ingredients_df = << >>
    /\ db = PriorDb
    /\ txn = {}
    /\ store_ops = << >>
    /\ requests_issued = 0
    /\ fetch_outcome = "pending"
    /\ since_request = 0
    /\ fetched_ok = << >>
    /\ exhausted_links = 0
    /\ marked_page = [l \in Links |-> 0]
    /\ page_failed = {}
    /\ listing_requested = FALSE
    /\ recipe_requested = FALSE
    /\ pages_visited = << >>
    /\ count_requests = FALSE
    /\ total_requests = 0
    /\ site_nutrition = [l \in Links |-> get_recipe_nutritional_values(l)]
    /\ site_max_links = MaxLinksPerPage

\* The process stops with the given status; nothing runs afterwards.
Stop(status) ==
    /\ pc' = "terminated"
    /\ exit_status' = status

\* ------------------------------------------------- the retrying fetch
\* Faulty variant: the guard compares with max_retries (off by one).
AttemptsRemain_off_by_one(a) == a < max_retries

\* `if attempt < max_retries - 1`: another attempt follows the failed one.
AttemptsRemain(a) == a < max_retries - 1

\* A fetch invocation starts: the retry loop's first iteration.
StartFetch ==
    /\ attempt' = 0
    /\ requests_issued' = 0
    /\ fetch_outcome' = "pending"

\* One more request was issued.
CountRequest == total_requests' = IF count_requests THEN total_requests + 1 ELSE total_requests

\* The page request is the first one to this page.
VisitPage ==
    pages_visited' = IF requests_issued = 0 THEN Append(pages_visited, page_number)
                     ELSE pages_visited

\* The link lists a listing page of this site can carry.
PageLinkLists ==
    IF site_max_links = MaxLinksPerPage THEN LinkLists ELSE SeqsUpTo(Links, site_max_links)

\* requests.get + raise_for_status of the first listing page succeed.
FirstFetchSuccess ==
    /\ pc = "first_fetch"
    /\ \E d \in FirstDocs : base_soup' = d
    /\ requests_issued' = requests_issued + 1
    /\ fetch_outcome' = "success"
    /\ since_request' = 0
    /\ pc' = "first_sleep"
    /\ UNCHANGED <<exit_status, attempt, number_of_recipes, number_of_pages, page_number,
                   soup, new_recipe_links, link_index>>
    /\ UNCHANGED <<data_vars, frame_vars, store_vars>>
    /\ UNCHANGED <<fetched_ok, exhausted_links, marked_page, page_failed,
                   listing_requested, recipe_requested>>
    /\ CountRequest
    /\ UNCHANGED <<pages_visited, site_vars>>

\* Faulty variant: the first listing is given up after a fourth failed request.
FirstFetchFail_fourth_attempt ==
    /\ pc = "first_fetch"
    /\ requests_issued' = requests_issued + 1
    /\ IF attempt < max_retries
       THEN /\ since_request' = retry_delay
            /\ attempt' = attempt + 1
            /\ IF attempt + 1 < max_retries + 1
               THEN pc' = "first_fetch" /\ UNCHANGED fetch_outcome
               ELSE pc' = "first_sleep" /\ fetch_outcome' = "fell_through"
            /\ UNCHANGED exit_status
       ELSE /\ since_request' = 0
            /\ fetch_outcome' = "failure"
            /\ Stop("exit1")
            /\ UNCHANGED attempt
    /\ UNCHANGED <<base_soup, number_of_recipes, number_of_pages, page_number,
                   soup, new_recipe_links, link_index>>
    /\ UNCHANGED <<data_vars, frame_vars, store_vars>>
    /\ UNCHANGED <<fetched_ok, exhausted_links, marked_page, page_failed,
                   listing_requested, recipe_requested>>
    /\ CountRequest
    /\ UNCHANGED <<pages_visited, site_vars>>

\* The request raises RequestException: sleep and retry, or exit(1).
FirstFetchFail ==
    /\ pc = "first_fetch"
    /\ requests_issued' = requests_issued + 1
    /\ IF AttemptsRemain(attempt)
       THEN /\ since_request' = retry_delay
            /\ attempt' = attempt + 1
            /\ IF attempt + 1 < max_retries
               THEN pc' = "first_fetch" /\ UNCHANGED fetch_outcome
               ELSE pc' = "first_sleep" /\ fetch_outcome' = "fell_through"
            /\ UNCHANGED exit_status
       ELSE /\ since_request' = 0
            /\ fetch_outcome' = "failure"
            /\ Stop("exit1")
            /\ UNCHANGED attempt
    /\ UNCHANGED <<base_soup, number_of_recipes, number_of_pages, page_number,
                   soup, new_recipe_links, link_index>>
    /\ UNCHANGED <<data_vars, frame_vars, store_vars>>
    /\ UNCHANGED <<fetched_ok, exhausted_links, marked_page, page_failed,
                   listing_requested, recipe_requested>>
    /\ CountRequest
    /\ UNCHANGED <<pages_visited, site_vars>>

\* time.sleep(1) after the first listing fetch.
FirstSleep ==
    /\ pc = "first_sleep"
    /\ since_request' = since_request + rate_limit_delay
    /\ pc' = "discover"
    /\ UNCHANGED <<exit_status, attempt, base_soup, number_of_recipes, number_of_pages,
                   page_number, soup, new_recipe_links, link_index>>
    /\ UNCHANGED <<data_vars, frame_vars, store_vars>>
    /\ UNCHANGED <<requests_issued, fetch_outcome, fetched_ok, exhausted_links,
                   marked_page, page_failed, listing_requested, recipe_requested>>
    /\ UNCHANGED <<count_vars, site_vars>>

\* Faulty variant: the quotient is rounded down.
Ceil_rounds_down(n, d) == n \div d

\* math.ceil(n / 30)
Ceil(n, d) == IF n % d = 0 THEN n \div d ELSE (n \div d) + 1

\* Faulty variant: a short or non-numeric results text is read as a count.
ParseError_lenient(doc) ==
    IF doc = Undefined THEN "NameError"
    ELSE IF ~doc.found THEN "AttributeError"
    ELSE "none"

\* The exception raised by lines 47-49 on the results paragraph, or "none".
ParseError(doc) ==
    IF doc = Undefined THEN "NameError"
    ELSE IF ~doc.found THEN "AttributeError"
    ELSE IF doc.tokens < 6 THEN "IndexError"
    ELSE IF ~doc.numeric THEN "ValueError:int"
    ELSE "none"

\* Page-count discovery and the initialisation of the storage lists.
DiscoverPages ==
    /\ pc = "discover"
    /\ IF ParseError(base_soup) # "none"
       THEN /\ Stop(ParseError(base_soup))
            /\ UNCHANGED <<number_of_recipes, number_of_pages>>
       ELSE /\ number_of_recipes' = base_soup.number
            /\ number_of_pages' = Ceil(base_soup.number, ResultsPerPage)
            /\ pc' = "page_next"
            /\ UNCHANGED exit_status
    /\ UNCHANGED <<attempt, base_soup, page_number, soup, new_recipe_links, link_index>>
    /\ UNCHANGED <<data_vars, frame_vars, store_vars, obs_vars>>
    /\ UNCHANGED <<count_vars, site_vars>>

\* ---------------------------------------------------- the page loop
\* `for page_number in page_list`: the next page, or the end of the loop.
PageNext ==
    /\ pc = "page_next"
    /\ IF page_number < number_of_pages
       THEN /\ page_number' = page_number + 1
            /\ StartFetch
            /\ pc' = "page_fetch"
       ELSE /\ pc' = "transform"
            /\ UNCHANGED <<page_number, attempt, requests_issued, fetch_outcome>>
    /\ UNCHANGED <<exit_status, base_soup, number_of_recipes, number_of_pages, soup,
                   new_recipe_links, link_index>>
    /\ UNCHANGED <<data_vars, frame_vars, store_vars>>
    /\ UNCHANGED <<since_request, fetched_ok, exhausted_links, marked_page, page_failed,
                   listing_requested, recipe_requested>>
    /\ UNCHANGED <<count_vars, site_vars>>

PageFetchSuccess ==
    /\ pc = "page_fetch"
    /\ \E ls \in PageLinkLists : soup' = [defined |-> TRUE, links |-> ls]
    /\ requests_issued' = requests_issued + 1
    /\ fetch_outcome' = "success"
    /\ since_request' = 0
    /\ listing_requested' = TRUE
    /\ pc' = "page_sleep"
    /\ UNCHANGED <<exit_status, attempt, base_soup, number_of_recipes, number_of_pages,
                   page_number, new_recipe_links, link_index>>
    /\ UNCHANGED <<data_vars, frame_vars, store_vars>>
    /\ UNCHANGED <<fetched_ok, exhausted_links, marked_page, page_failed, recipe_requested>>
    /\ CountRequest
    /\ VisitPage
    /\ UNCHANGED site_vars

\* The page request raises: sleep and retry, or give the page up (break).
PageFetchFail ==
    /\ pc = "page_fetch"
    /\ requests_issued' = requests_issued + 1
    /\ listing_requested' = TRUE
    /\ IF AttemptsRemain(attempt)
       THEN /\ since_request' = retry_delay
            /\ attempt' = attempt + 1
            /\ IF attempt + 1 < max_retries
               THEN pc' = "page_fetch" /\ UNCHANGED fetch_outcome
               ELSE pc' = "page_sleep" /\ fetch_outcome' = "fell_through"
            /\ UNCHANGED page_failed
       ELSE /\ since_request' = 0
            /\ fetch_outcome' = "failure"
            /\ page_failed' = page_failed \cup {page_number}
            /\ pc' = "page_sleep"
            /\ UNCHANGED attempt
    /\ UNCHANGED <<exit_status, base_soup, number_of_recipes, number_of_pages,
                   page_number, soup, new_recipe_links, link_index>>
    /\ UNCHANGED <<data_vars, frame_vars, store_vars>>
    /\ UNCHANGED <<fetched_ok, exhausted_links, marked_page, recipe_requested>>
    /\ CountRequest
    /\ VisitPage
    /\ UNCHANGED site_vars

\* Faulty variant: no delay after the page's retry loop.
PageSleep_no_delay ==
    /\ pc = "page_sleep"
    /\ pc' = "collect"
    /\ UNCHANGED <<exit_status, attempt, base_soup, number_of_recipes, number_of_pages,
                   page_number, soup, new_recipe_links, link_index>>
    /\ UNCHANGED <<data_vars, frame_vars, store_vars, obs_vars>>
    /\ UNCHANGED <<count_vars, site_vars>>

\* time.sleep(1) after the page's retry loop.
PageSleep ==
    /\ pc = "page_sleep"
    /\ since_request' = since_request + rate_limit_delay
    /\ pc' = "collect"
    /\ UNCHANGED <<exit_status, attempt, base_soup, number_of_recipes, number_of_pages,
                   page_number, soup, new_recipe_links, link_index>>
    /\ UNCHANGED <<data_vars, frame_vars, store_vars>>
    /\ UNCHANGED <<requests_issued, fetch_outcome, fetched_ok, exhausted_links,
                   marked_page, page_failed, listing_requested, recipe_requested>>
    /\ UNCHANGED <<count_vars, site_vars>>

\* scripts.get_recipe_links: the recipe URLs of a listing page, in page order.
get_recipe_links(page_soup) == page_soup.links

\* Faulty variant: the page's links are not filtered against the visited links.
IsNewLink_unfiltered(link, used) == TRUE

\* `if link not in used_recipe_links`
IsNewLink(link, used) == link \notin Range(used)

\* new_recipe_links: the page's links not yet in used_recipe_links.  `soup`
\* is the name bound by the last successful page fetch, if any.
CollectLinks ==
    /\ pc = "collect"
    /\ IF soup = Undefined
       THEN /\ Stop("NameError")
            /\ UNCHANGED <<new_recipe_links, link_index>>
       ELSE /\ new_recipe_links' =
                  SelectSeq(get_recipe_links(soup), LAMBDA l : IsNewLink(l, used_recipe_links))
            /\ link_index' = 0
            /\ pc' = "link_next"
            /\ UNCHANGED exit_status
    /\ UNCHANGED <<attempt, base_soup, number_of_recipes, number_of_pages, page_number, soup>>
    /\ UNCHANGED <<data_vars, frame_vars, store_vars, obs_vars>>
    /\ UNCHANGED <<count_vars, site_vars>>

\* --------------------------------------------------- the recipe loop
\* `for link in new_recipe_links`: the next link, or back to the page loop.
LinkNext ==
    /\ pc = "link_next"
    /\ IF link_index < Len(new_recipe_links)
       THEN /\ link_index' = link_index + 1
            /\ StartFetch
            /\ pc' = "recipe_fetch"
       ELSE /\ pc' = "page_next"
            /\ UNCHANGED <<link_index, attempt, requests_issued, fetch_outcome>>
    /\ UNCHANGED <<exit_status, base_soup, number_of_recipes, number_of_pages,
                   page_number, soup, new_recipe_links>>
    /\ UNCHANGED <<data_vars, frame_vars, store_vars>>
    /\ UNCHANGED <<since_request, fetched_ok, exhausted_links, marked_page, page_failed,
                   listing_requested, recipe_requested>>
    /\ UNCHANGED <<count_vars, site_vars>>

\* The loop variable `link`.
link == new_recipe_links[link_index]

\* recipe_nutritional_values: all desired keys seeded with None, then the raw
\* pairs whose name is a desired key overlaid in order.
RECURSIVE Overlay(_, _)
Overlay(dict, pairs) ==
    IF pairs = << >> THEN dict
    ELSE LET name == Head(pairs)[1]
             value == Head(pairs)[2]
         IN  Overlay(IF name \in DOMAIN dict THEN [dict EXCEPT ![name] = value] ELSE dict,
                     Tail(pairs))

\* Faulty variant: a raw pair with a name outside the desired keys adds a key.
recipe_nutritional_values_keeps_all(pairs) ==
    LET base == Overlay([k \in Range(nutritional_desired_keys) |-> None], pairs)
    IN  [k \in DOMAIN base \cup {pairs[j][1] : j \in 1..Len(pairs)} |->
            IF k \in DOMAIN base THEN base[k] ELSE None]

recipe_nutritional_values(pairs) ==
    Overlay([k \in Range(nutritional_desired_keys) |-> None], pairs)

\* recipe_category_information after one recipe's categories are added:
\* an existing column gets the status appended, a new key starts a column.
AddCategories(info, categories) ==
    [c \in DOMAIN info \cup DOMAIN categories |->
        IF c \notin DOMAIN categories THEN info[c]
        ELSE IF c \in DOMAIN info THEN Append(info[c], categories[c])
        ELSE <<categories[c]>>]

\* The request succeeds: extract, and append the recipe to every list.
RecipeFetchSuccess ==
    /\ pc = "recipe_fetch"
    /\ requests_issued' = requests_issued + 1
    /\ recipe_requested' = TRUE
    /\ since_request' = 0
    /\ recipe_names' = Append(recipe_names, get_recipe_name(link))
    /\ recipe_cooking_times' = Append(recipe_cooking_times, get_recipe_cooking_time(link))
    /\ recipe_ingredients' = Append(recipe_ingredients, get_recipe_ingredients(link))
    /\ recipe_nutritional_data' =
           Append(recipe_nutritional_data,
                  recipe_nutritional_values(site_nutrition[link]))
    /\ recipe_category_information' =
           AddCategories(recipe_category_information, get_recipe_categories(link))
    /\ successful_links' = Append(successful_links, link)
    /\ fetched_ok' = Append(fetched_ok, link)
    /\ fetch_outcome' = "success"
    /\ pc' = "link_done"
    /\ UNCHANGED <<exit_status, attempt, base_soup, number_of_recipes, number_of_pages,
                   page_number, soup, new_recipe_links, link_index>>
    /\ UNCHANGED <<used_recipe_links, frame_vars, store_vars>>
    /\ UNCHANGED <<exhausted_links, marked_page, page_failed, listing_requested>>
    /\ CountRequest
    /\ UNCHANGED <<pages_visited, site_vars>>

\* Faulty variant: the name is appended before the request's status is
\* checked, so a failed attempt leaves a name behind.
RecipeFetchFail_appends_name ==
    /\ pc = "recipe_fetch"
    /\ requests_issued' = requests_issued + 1
    /\ recipe_requested' = TRUE
    /\ recipe_names' = Append(recipe_names, get_recipe_name(link))
    /\ IF AttemptsRemain(attempt)
       THEN /\ since_request' = retry_delay
            /\ attempt' = attempt + 1
            /\ pc' = "recipe_fetch"
            /\ UNCHANGED <<fetch_outcome, exhausted_links>>
       ELSE /\ since_request' = 0
            /\ fetch_outcome' = "failure"
            /\ exhausted_links' = exhausted_links + 1
            /\ pc' = "link_done"
            /\ UNCHANGED attempt
    /\ UNCHANGED <<exit_status, base_soup, number_of_recipes, number_of_pages,
                   page_number, soup, new_recipe_links, link_index>>
    /\ UNCHANGED <<used_recipe_links, successful_links, recipe_cooking_times,
                   recipe_nutritional_data, recipe_category_information, recipe_ingredients>>
    /\ UNCHANGED <<frame_vars, store_vars>>
    /\ UNCHANGED <<fetched_ok, marked_page, page_failed, listing_requested>>
    /\ CountRequest
    /\ UNCHANGED <<pages_visited, site_vars>>

\* Faulty variant: giving a recipe link up ends the run, as giving the first
\* listing page up does.
RecipeFetchFail_fatal ==
    /\ pc = "recipe_fetch"
    /\ requests_issued' = requests_issued + 1
    /\ recipe_requested' = TRUE
    /\ IF AttemptsRemain(attempt)
       THEN /\ since_request' = retry_delay
            /\ attempt' = attempt + 1
            /\ pc' = "recipe_fetch"
            /\ UNCHANGED <<fetch_outcome, exhausted_links, exit_status>>
       ELSE /\ since_request' = 0
            /\ fetch_outcome' = "failure"
            /\ exhausted_links' = exhausted_links + 1
            /\ Stop("exit1")
            /\ UNCHANGED attempt
    /\ UNCHANGED <<base_soup, number_of_recipes, number_of_pages,
                   page_number, soup, new_recipe_links, link_index>>
    /\ UNCHANGED <<data_vars, frame_vars, store_vars>>
    /\ UNCHANGED <<fetched_ok, marked_page, page_failed, listing_requested>>
    /\ CountRequest
    /\ UNCHANGED <<pages_visited, site_vars>>

\* The request raises before anything is appended: sleep and retry, or give
\* the link up (break).
RecipeFetchFail ==
    /\ pc = "recipe_fetch"
    /\ requests_issued' = requests_issued + 1
    /\ recipe_requested' = TRUE
    /\ IF AttemptsRemain(attempt)
       THEN /\ since_request' = retry_delay
            /\ attempt' = attempt + 1
            /\ IF attempt + 1 < max_retries
               THEN pc' = "recipe_fetch" /\ UNCHANGED fetch_outcome
               ELSE pc' = "link_done" /\ fetch_outcome' = "fell_through"
            /\ UNCHANGED exhausted_links
       ELSE /\ since_request' = 0
            /\ fetch_outcome' = "failure"
            /\ exhausted_links' = exhausted_links + 1
            /\ pc' = "link_done"
            /\ UNCHANGED attempt
    /\ UNCHANGED <<exit_status, base_soup, number_of_recipes, number_of_pages,
                   page_number, soup, new_recipe_links, link_index>>
    /\ UNCHANGED <<data_vars, frame_vars, store_vars>>
    /\ UNCHANGED <<fetched_ok, marked_page, page_failed, listing_requested>>
    /\ CountRequest
    /\ UNCHANGED <<pages_visited, site_vars>>

\* used_recipe_links.append(link); time.sleep(1)
LinkDone ==
    /\ pc = "link_done"
    /\ used_recipe_links' = Append(used_recipe_links, link)
    /\ marked_page' = IF marked_page[link] = 0
                      THEN [marked_page EXCEPT ![link] = page_number]
                      ELSE marked_page
    /\ since_request' = since_request + rate_limit_delay
    /\ pc' = "link_next"
    /\ UNCHANGED <<exit_status, attempt, base_soup, number_of_recipes, number_of_pages,
                   page_number, soup, new_recipe_links, link_index>>
    /\ UNCHANGED <<recipe_names, successful_links, recipe_cooking_times,
                   recipe_nutritional_data, recipe_category_information, recipe_ingredients>>
    /\ UNCHANGED <<frame_vars, store_vars>>
    /\ UNCHANGED <<requests_issued, fetch_outcome, fetched_ok, exhausted_links,
                   page_failed, listing_requested, recipe_requested>>
    /\ UNCHANGED <<count_vars, site_vars>>

\* ------------------------------------------------------- the transform
\* value[:-1]
DropLast(text) == SubSeq(text, 1, Len(text) - 1)

\* Faulty variant: kcal loses its last character too.
CleanValue_strips_kcal(key, value) ==
    IF value = None THEN None ELSE DropLast(value)

\* One cleaned nutrition value: None stays None, every key but kcal loses
\* its last character.
CleanValue(key, value) ==
    IF value = None THEN None
    ELSE IF key # "kcal" THEN DropLast(value)
    ELSE value

clean_recipe_nutritional_values(data) ==
    [k \in Range(keys) |-> [i \in 1..Len(data) |-> CleanValue(k, data[i][k])]]

\* The key renaming of the output schema.
RenameTable ==
    [kcal |-> "kcal", fat |-> "Fat(g)", saturates |-> "Saturates(g)", carbs |-> "Carbs(g)",
     sugars |-> "Sugars(g)", fibre |-> "Fibre(g)", protein |-> "Protein(g)", salt |-> "Salt(g)"]

final_nutrition_dict(clean) ==
    [c \in {RenameTable[k] : k \in DOMAIN clean} |->
        clean[CHOOSE k \in DOMAIN clean : RenameTable[k] = c]]

\* pd.DataFrame(dict of columns) needs all columns of one length.
SameLength(lengths) == \A n1, n2 \in lengths : n1 = n2

\* The column lengths of recipe_info_data.
RecipeInfoColumnLengths ==
    {Len(recipe_names), Len(successful_links), Len(recipe_cooking_times)}
    \cup {Len(recipe_category_information[c]) : c \in DOMAIN recipe_category_information}

\* recipe_info_df with recipe_id = index + 1.
RecipeInfoFrame ==
    [i \in 1..Len(recipe_names) |->
        [recipe_id |-> i,
         RecipeName |-> recipe_names[i],
         RecipeLink |-> successful_links[i],
         CookingTime |-> recipe_cooking_times[i],
         categories |-> [c \in DOMAIN recipe_category_information |->
                            recipe_category_information[c][i]]]]

\* nutrition_df with recipe_id = index + 1.
NutritionFrame ==
    LET final == final_nutrition_dict(clean_recipe_nutritional_values(recipe_nutritional_data))
    IN  [i \in 1..Len(recipe_nutritional_data) |->
            [recipe_id |-> i, columns |-> [c \in DOMAIN final |-> final[c][i]]]]

\* flattened_ingredients: zip(recipe_ids, recipe_ingredients), one row per
\* ingredient, recipe_ids = 1..len(recipe_ingredients).
RECURSIVE Flatten(_, _)
Flatten(lists, i) ==
    IF i > Len(lists) THEN << >>
    ELSE [j \in 1..Len(lists[i]) |-> [recipe_id |-> i, Ingredient |-> lists[i][j]]]
         \o Flatten(lists, i + 1)

\* Faulty variant: recipe_ids = range(0, len(recipe_ingredients)).
IngredientsFrame_zero_based ==
    [r \in 1..Len(Flatten(recipe_ingredients, 1)) |->
        [recipe_id |-> Flatten(recipe_ingredients, 1)[r].recipe_id - 1,
         Ingredient |-> Flatten(recipe_ingredients, 1)[r].Ingredient]]

IngredientsFrame == Flatten(recipe_ingredients, 1)

\* Lines 160-226: clean the nutrition values and build the three frames.
Transform ==
    /\ pc = "transform"
    /\ IF SameLength(RecipeInfoColumnLengths)
       THEN /\ recipe_info_df' = RecipeInfoFrame
            /\ nutrition_df' = NutritionFrame
            /\ ingredients_df' = IngredientsFrame
            /\ pc' = "begin"
            /\ UNCHANGED exit_status
       ELSE /\ Stop("ValueError:DataFrame")
            /\ UNCHANGED frame_vars
    /\ UNCHANGED <<attempt, base_soup, number_of_recipes, number_of_pages, page_number,
                   soup, new_recipe_links, link_index>>
    /\ UNCHANGED <<data_vars, store_vars, obs_vars>>
    /\ UNCHANGED <<count_vars, site_vars>>

\* ------------------------------------------------------------ the load
Tables == {"recipe_info", "nutrition", "ingredients"}

\* trans = Conn.begin()
BeginTransaction ==
    /\ pc = "begin"
    /\ txn' = {}
    /\ pc' = "delete_ingredients"
    /\ UNCHANGED <<exit_status, attempt, base_soup, number_of_recipes, number_of_pages,
                   page_number, soup, new_recipe_links, link_index>>
    /\ UNCHANGED <<data_vars, frame_vars, obs_vars, db, store_ops>>
    /\ UNCHANGED <<count_vars, site_vars>>

\* Conn.execute(DELETE FROM table) inside the open transaction.
ExecuteDelete(at, table, next) ==
    /\ pc = at
    /\ txn' = txn \cup {table}
    /\ store_ops' = Append(store_ops, <<"delete", table>>)
    /\ pc' = next
    /\ UNCHANGED <<exit_status, attempt, base_soup, number_of_recipes, number_of_pages,
                   page_number, soup, new_recipe_links, link_index>>
    /\ UNCHANGED <<data_vars, frame_vars, obs_vars, db>>
    /\ UNCHANGED <<count_vars, site_vars>>

\* Faulty variant: the parent table is deleted first.
DeleteIngredients_parent_first ==
    ExecuteDelete("delete_ingredients", "recipe_info", "delete_nutrition")

DeleteIngredients == ExecuteDelete("delete_ingredients", "ingredients", "delete_nutrition")

DeleteNutrition == ExecuteDelete("delete_nutrition", "nutrition", "delete_recipe_info")

DeleteRecipeInfo == ExecuteDelete("delete_recipe_info", "recipe_info", "commit")

\* Faulty variant: the transaction is never committed before the appends.
CommitDelete_skipped ==
    /\ pc = "commit"
    /\ pc' = "append_recipe_info"
    /\ UNCHANGED <<exit_status, attempt, base_soup, number_of_recipes, number_of_pages,
                   page_number, soup, new_recipe_links, link_index>>
    /\ UNCHANGED <<data_vars, frame_vars, obs_vars, store_vars>>
    /\ UNCHANGED <<count_vars, site_vars>>

\* trans.commit(): the deletes of the transaction reach the store.
CommitDelete ==
    /\ pc = "commit"
    /\ db' = [t \in Tables |-> IF t \in txn THEN << >> ELSE db[t]]
    /\ txn' = {}
    /\ store_ops' = Append(store_ops, <<"commit">>)
    /\ pc' = "append_recipe_info"
    /\ UNCHANGED <<exit_status, attempt, base_soup, number_of_recipes, number_of_pages,
                   page_number, soup, new_recipe_links, link_index>>
    /\ UNCHANGED <<data_vars, frame_vars, obs_vars>>
    /\ UNCHANGED <<count_vars, site_vars>>

\* frame.to_sql(table, engine, if_exists='append'): its own transaction.
ToSql(at, frame, table, next) ==
    /\ pc = at
    /\ db' = [db EXCEPT ![table] = @ \o frame]
    /\ store_ops' = Append(store_ops, <<"append", table>>)
    /\ pc' = next
    /\ UNCHANGED <<exit_status, attempt, base_soup, number_of_recipes, number_of_pages,
                   page_number, soup, new_recipe_links, link_index>>
    /\ UNCHANGED <<data_vars, frame_vars, obs_vars, txn>>
    /\ UNCHANGED <<count_vars, site_vars>>

AppendRecipeInfo ==
    ToSql("append_recipe_info", recipe_info_df, "recipe_info", "append_nutrition")

AppendNutrition ==
    ToSql("append_nutrition", nutrition_df, "nutrition", "append_ingredients")

AppendIngredients ==
    ToSql("append_ingredients", ingredients_df, "ingredients", "dispose")

LoadSteps ==
    {"begin", "delete_ingredients", "delete_nutrition", "delete_recipe_info", "commit",
     "append_recipe_info", "append_nutrition", "append_ingredients"}

\* Faulty variant: a failed store operation restores the store's contents
\* as they were before the run.
LoadFailure_restores ==
    /\ pc \in LoadSteps
    /\ Stop("LoadFailure")
    /\ txn' = {}
    /\ db' = PriorDb
    /\ UNCHANGED <<attempt, base_soup, number_of_recipes, number_of_pages,
                   page_number, soup, new_recipe_links, link_index>>
    /\ UNCHANGED <<data_vars, frame_vars, obs_vars, store_ops>>
    /\ UNCHANGED <<count_vars, site_vars>>

\* A store operation raises: the script dies with the traceback, and the
\* open transaction, if any, is never committed.
LoadFailure ==
    /\ pc \in LoadSteps
    /\ Stop("LoadFailure")
    /\ txn' = {}
    /\ UNCHANGED <<attempt, base_soup, number_of_recipes, number_of_pages,
                   page_number, soup, new_recipe_links, link_index>>
    /\ UNCHANGED <<data_vars, frame_vars, obs_vars, db, store_ops>>
    /\ UNCHANGED <<count_vars, site_vars>>

\* engine.dispose(): the run ends normally.
Dispose ==
    /\ pc = "dispose"
    /\ Stop("ok")
    /\ UNCHANGED <<attempt, base_soup, number_of_recipes, number_of_pages,
                   page_number, soup, new_recipe_links, link_index>>
    /\ UNCHANGED <<data_vars, frame_vars, store_vars, obs_vars>>
    /\ UNCHANGED <<count_vars, site_vars>>

Next ==
    \/ FirstFetchSuccess
    \/ FirstFetchFail
    \/ FirstSleep
    \/ DiscoverPages
    \/ PageNext
    \/ PageFetchSuccess
    \/ PageFetchFail
    \/ PageSleep
    \/ CollectLinks
    \/ LinkNext
    \/ RecipeFetchSuccess
    \/ RecipeFetchFail
    \/ LinkDone
    \/ Transform
    \/ BeginTransaction
    \/ DeleteIngredients
    \/ DeleteNutrition
    \/ DeleteRecipeInfo
    \/ CommitDelete
    \/ AppendRecipeInfo
    \/ AppendNutrition
    \/ AppendIngredients
    \/ LoadFailure
    \/ Dispose

Spec == Init /\ [][Next]_vars

\* ------------------------------------------- nutrition on varied pages
\* A recipe page carries at most MaxCells nutrition cells.
MaxCells == 2

CellNames == Range(nutritional_desired_keys) \cup {"iron"}

RawTexts == { <<"2", "5", "0">>, <<"1", "2", "g">>, <<"g">> }

RawCellLists == SeqsUpTo({<<n, t>> : n \in CellNames, t \in RawTexts}, MaxCells)

\* The run has fetched the first listing (1 result) and page 1, which lists
\* links 1 and 3, and is about to request link 1, whose page carries any
\* list of nutrition cells.
NutritionInit ==
    /\ pc = "recipe_fetch"
    /\ exit_status = "running"
    /\ attempt = 0
    /\ base_soup = [found |-> TRUE, tokens |-> 7, numeric |-> TRUE, number |-> 1]
    /\ number_of_recipes = 1
    /\ number_of_pages = 1
    /\ page_number = 1
    /\ soup = [defined |-> TRUE, links |-> <<1, 3>>]
    /\ new_recipe_links = <<1, 3>>
    /\ link_index = 1
    /\ used_recipe_links = << >>
    /\ recipe_names = << >>
    /\ successful_links = << >>
    /\ recipe_cooking_times = << >>
    /\ recipe_nutritional_data = << >>
    /\ recipe_category_information = << >>
    /\ recipe_ingredients = << >>
    /\ recipe_info_df = << >>
    /\ nutrition_df = << >>
    /\ ingredients_df = << >>
    /\ db = PriorDb
    /\ txn = {}
    /\ store_ops = << >>
    /\ requests_issued = 0
    /\ fetch_outcome = "pending"
    /\ since_request = rate_limit_delay
    /\ fetched_ok = << >>
    /\ exhausted_links = 0
    /\ marked_page = [l \in Links |-> 0]
    /\ page_failed = {}
    /\ listing_requested = TRUE
    /\ recipe_requested = FALSE
    /\ pages_visited = <<1>>
    /\ count_requests = FALSE
    /\ total_requests = 0
    /\ \E cells \in RawCellLists :
          site_nutrition = [l \in Links |-> IF l = 1 THEN cells
                                            ELSE get_recipe_nutritional_values(l)]
    /\ site_max_links = MaxLinksPerPage

NutritionNext ==
    \/ RecipeFetchSuccess
    \/ LinkDone
    \/ LinkNext
    \/ PageNext
    \/ Transform

NutritionSpec == NutritionInit /\ [][NutritionNext]_vars

\* ------------------------------------------------ paging on any count
\* The first listing page reports at most MaxResults results.
MaxResults == 61

\* The run has fetched the first listing page, which reports any count up to
\* MaxResults, and slept; the site's listing pages carry no recipe link.
PagingInit ==
    /\ pc = "discover"
    /\ exit_status = "running"
    /\ attempt = 0
    /\ \E n \in 0..MaxResults :
          base_soup = [found |-> TRUE, tokens |-> 7, numeric |-> TRUE, number |-> n]
    /\ number_of_recipes = 0
    /\ number_of_pages = 0
    /\ page_number = 0
    /\ soup = Undefined
    /\ new_recipe_links = << >>
    /\ link_index = 0
    /\ used_recipe_links = << >>
    /\ recipe_names = << >>
    /\ successful_links = << >>
    /\ recipe_cooking_times = << >>
    /\ recipe_nutritional_data = << >>
    /\ recipe_category_information = << >>
    /\ recipe_ingredients = << >>
    /\ recipe_info_df = << >>
    /\ nutrition_df = << >>
    /\ ingredients_df = << >>
    /\ db = PriorDb
    /\ txn = {}
    /\ store_ops = << >>
    /\ requests_issued = 1
    /\ fetch_outcome = "success"
    /\ since_request = rate_limit_delay
    /\ fetched_ok = << >>
    /\ exhausted_links = 0
    /\ marked_page = [l \in Links |-> 0]
    /\ page_failed = {}
    /\ listing_requested = FALSE
    /\ recipe_requested = FALSE
    /\ pages_visited = << >>
    /\ count_requests = FALSE
    /\ total_requests = 0
    /\ site_nutrition = [l \in Links |-> get_recipe_nutritional_values(l)]
    /\ site_max_links = 0

PagingNext ==
    \/ DiscoverPages
    \/ PageNext
    \/ PageFetchSuccess
    \/ PageFetchFail
    \/ PageSleep
    \/ CollectLinks
    \/ LinkNext
    \/ Transform

PagingSpec == PagingInit /\ [][PagingNext]_vars

\* ------------------------------------------------- counting requests
\* A listing page of the counted runs carries at most MaxCountedLinks links.
MaxCountedLinks == 1

\* The start of the script, with every request counted.
CountingInit ==
    /\ pc = "first_fetch"
    /\ exit_status = "running"
    /\ attempt = 0
    /\ base_soup = Undefined
    /\ number_of_recipes = 0
    /\ number_of_pages = 0
    /\ page_number = 0
    /\ soup = Undefined
    /\ new_recipe_links = << >>
    /\ link_index = 0
    /\ used_recipe_links = << >>
    /\ recipe_names = << >>
    /\ successful_links = << >>
    /\ recipe_cooking_times = << >>
    /\ recipe_nutritional_data = << >>
    /\ recipe_category_information = << >>
    /\ recipe_ingredients = << >>
    /\ recipe_info_df = << >>
    /\ nutrition_df = << >>
    /\ ingredients_df = << >>
    /\ db = PriorDb
    /\ txn = {}
    /\ store_ops = << >>
    /\ requests_issued = 0
    /\ fetch_outcome = "pending"
    /\ since_request = 0
    /\ fetched_ok = << >>
    /\ exhausted_links = 0
    /\ marked_page = [l \in Links |-> 0]
    /\ page_failed = {}
    /\ listing_requested = FALSE
    /\ recipe_requested = FALSE
    /\ pages_visited = << >>
    /\ count_requests = TRUE
    /\ total_requests = 0
    /\ site_nutrition = [l \in Links |-> get_recipe_nutritional_values(l)]
    /\ site_max_links = MaxCountedLinks

\* The script is one sequential process: while a statement remains, it runs;
\* every request returns with a response or an error.
TerminationSpec == CountingInit /\ [][Next]_vars /\ WF_vars(Next)

\* ---------------------------------------------------------- properties
\* The run got as far as the load (line 228) or beyond it.
ReachedLoad == pc \in LoadSteps \cup {"dispose"} \/ exit_status \in {"ok", "LoadFailure"}

\* The dataset of this run, table by table.
NewDataset ==
    [recipe_info |-> recipe_info_df, nutrition |-> nutrition_df, ingredients |-> ingredients_df]

\* C1: after every step of the per-link loop the lists of names, successful
\* links, cooking times, nutrition dictionaries and ingredient lists have one
\* length, the number of links whose fetch succeeded; in a run that reaches the
\* load recipe_info and nutrition have that many rows and every ingredient
\* row's recipe_id lies in 1..n.
C1_RowSetsAligned ==
    /\ Len(recipe_names) = Len(fetched_ok)
    /\ Len(successful_links) = Len(fetched_ok)
    /\ Len(recipe_cooking_times) = Len(fetched_ok)
    /\ Len(recipe_nutritional_data) = Len(fetched_ok)
    /\ Len(recipe_ingredients) = Len(fetched_ok)
    /\ ReachedLoad =>
          /\ Len(recipe_info_df) = Len(fetched_ok)
          /\ Len(nutrition_df) = Len(fetched_ok)
          /\ \A r \in 1..Len(ingredients_df) :
                ingredients_df[r].recipe_id \in 1..Len(recipe_info_df)

C1_Witness ==
    /\ ReachedLoad
    /\ Len(recipe_info_df) >= 2
    /\ exhausted_links >= 1
    /\ Len(ingredients_df) >= 2

\* C2: the k-th link whose fetch succeeded holds position k in every list,
\* and in a run that reaches the load it has recipe_id k in recipe_info, in
\* nutrition and on exactly its own ingredient rows; no identifier exists
\* beyond the number of successful fetches.
C2_SequentialIdentifiers ==
    /\ \A k \in 1..Len(fetched_ok) :
          /\ k \in DOMAIN successful_links /\ successful_links[k] = fetched_ok[k]
          /\ k \in DOMAIN recipe_names /\ recipe_names[k] = <<"name", fetched_ok[k]>>
          /\ k \in DOMAIN recipe_nutritional_data
          /\ recipe_nutritional_data[k]["kcal"][1] = ToString(fetched_ok[k])
          /\ k \in DOMAIN recipe_ingredients
          /\ \A j \in 1..Len(recipe_ingredients[k]) :
                recipe_ingredients[k][j][2] = fetched_ok[k]
    /\ ReachedLoad =>
          /\ DOMAIN recipe_info_df = 1..Len(fetched_ok)
          /\ DOMAIN nutrition_df = 1..Len(fetched_ok)
          /\ \A k \in 1..Len(fetched_ok) :
                /\ recipe_info_df[k].recipe_id = k
                /\ recipe_info_df[k].RecipeLink = fetched_ok[k]
                /\ nutrition_df[k].recipe_id = k
                /\ nutrition_df[k].columns["kcal"][1] = ToString(fetched_ok[k])
                /\ Cardinality({r \in 1..Len(ingredients_df) : ingredients_df[r].recipe_id = k})
                      = fetched_ok[k] % 3
          /\ \A r \in 1..Len(ingredients_df) :
                /\ ingredients_df[r].recipe_id \in 1..Len(fetched_ok)
                /\ ingredients_df[r].Ingredient[2] = fetched_ok[ingredients_df[r].recipe_id]

\* A failed link was handled before two different links succeeded.
C2_Witness ==
    /\ ReachedLoad
    /\ Len(fetched_ok) >= 2
    /\ fetched_ok[1] # fetched_ok[2]
    /\ used_recipe_links[1] # fetched_ok[1]
    /\ Len(ingredients_df) >= 1

NoRepeats(s) == \A i, j \in 1..Len(s) : i # j => s[i] # s[j]

\* C3: every recipe URL goes through the per-recipe pipeline at most once, so
\* neither used_recipe_links nor successful_links holds a URL twice.
C3_ProcessedAtMostOnce ==
    /\ NoRepeats(used_recipe_links)
    /\ NoRepeats(successful_links)

\* C4: a recipe request is never issued to a link that was marked visited
\* while an earlier listing page was processed.
C4_VisitedNeverRefetched ==
    /\ pc = "recipe_fetch" => marked_page[link] \notin 1..(page_number - 1)
    /\ pc \in {"link_next", "recipe_fetch", "link_done"} =>
          \A i \in 1..Len(new_recipe_links) :
             marked_page[new_recipe_links[i]] \notin 1..(page_number - 1)

\* Page 2 was fetched and lists again a link whose fetch failed on page 1
\* and one whose fetch succeeded on page 1; the recipe loop of page 2 is over.
C4_Witness ==
    /\ pc = "transform"
    /\ page_number = 2
    /\ 2 \notin page_failed
    /\ \E l \in Range(soup.links) : marked_page[l] = 1 /\ l \notin Range(successful_links)
    /\ \E l \in Range(soup.links) : marked_page[l] = 1 /\ l \in Range(successful_links)

\* The third request of a recipe fetch fails: every attempt has failed.
RecipeExhaustedStep ==
    /\ pc = "recipe_fetch"
    /\ requests_issued' = 3
    /\ fetched_ok' = fetched_ok

\* Rows and visited links add up: every finished iteration of the recipe loop
\* added one visited link, and one row unless its fetch was given up.
RowsAccount ==
    /\ Len(recipe_names) + exhausted_links =
          Len(used_recipe_links) + (IF pc = "link_done" THEN 1 ELSE 0)
    /\ ReachedLoad =>
          /\ Len(recipe_info_df) = Len(used_recipe_links) - exhausted_links
          /\ Len(nutrition_df) = Len(used_recipe_links) - exhausted_links

\* C5: when the last attempt of a recipe fetch fails nothing is added to any
\* record set and the run goes on; the link is then marked visited, the loop
\* moves to the next link (or back to the page loop), and the rows at the load
\* are one fewer per given-up link than the links handled.
C5_FailedLinkSkipped ==
    [][/\ RecipeExhaustedStep =>
             /\ UNCHANGED data_vars
             /\ pc' = "link_done"
             /\ fetch_outcome' = "failure"
             /\ exit_status' = "running"
       /\ (pc = "link_done" /\ fetch_outcome = "failure") =>
             /\ used_recipe_links' = Append(used_recipe_links, link)
             /\ UNCHANGED <<recipe_names, successful_links, recipe_cooking_times,
                            recipe_nutritional_data, recipe_category_information,
                            recipe_ingredients>>
             /\ pc' = "link_next"
             /\ exit_status' = "running"
       /\ (pc = "link_next" /\ fetch_outcome = "failure") =>
             /\ exit_status' = "running"
             /\ IF link_index < Len(new_recipe_links)
                THEN pc' = "recipe_fetch" /\ link_index' = link_index + 1
                ELSE pc' = "page_next"
       /\ RowsAccount']_vars

\* A run with a given-up link and two successful ones ended normally.
C5_Witness ==
    /\ exit_status = "ok"
    /\ exhausted_links >= 1
    /\ Len(recipe_info_df) >= 2
    /\ \E i \in 1..Len(used_recipe_links) : used_recipe_links[i] \notin Range(successful_links)

\* C6: when every attempt to fetch listing page p fails the run does not
\* abort on that page and no recipe is requested on its behalf.
C6_PageFailureNonFatal ==
    /\ (pc = "terminated" /\ exit_status \notin {"ok", "LoadFailure", "ValueError:DataFrame"})
          => page_number \notin page_failed
    /\ pc = "recipe_fetch" => page_number \notin page_failed

\* The results paragraph of the first listing page cannot be parsed.
Unparseable(doc) == ~doc.found \/ doc.tokens < 6 \/ ~doc.numeric

FatalStatuses == {"exit1", "AttributeError", "IndexError", "ValueError:int"}

\* The run stopped in page-count discovery with a non-zero outcome, having
\* requested no page of the page loop and no recipe, and the store untouched.
FatalStop ==
    /\ pc = "terminated"
    /\ exit_status \in FatalStatuses
    /\ ~listing_requested
    /\ ~recipe_requested
    /\ db = PriorDb
    /\ txn = {}
    /\ store_ops = << >>

\* C7: the third failed request of the first listing page, or an unparseable
\* results count, stops the run at once with a non-zero outcome; a stopped run
\* takes no further step, so nothing is requested and no table is touched.
C7_DiscoveryFailureFatal ==
    [][/\ (pc = "first_fetch" /\ requests_issued' = 3 /\ base_soup' = Undefined) => FatalStop'
       /\ (pc = "discover" /\ Unparseable(base_soup)) => FatalStop'
       /\ exit_status = "running"
       /\ exit_status' \in FatalStatuses => FatalStop']_vars

C7_Witness ==
    /\ FatalStop
    /\ exit_status = "ValueError:int"

C7_WitnessExhausted ==
    /\ FatalStop
    /\ exit_status = "exit1"

FetchSteps == {"first_fetch", "page_fetch", "recipe_fetch"}

\* C8: a fetch invocation issues between 1 and 3 requests, none after its
\* first success, and ends either successful or failed after exactly 3 failed
\* requests.
C8_BoundedRetry ==
    /\ fetch_outcome \in {"pending", "success", "failure"}
    /\ requests_issued \in 0..3
    /\ pc \in FetchSteps <=> fetch_outcome = "pending"
    /\ fetch_outcome = "pending" => requests_issued = attempt /\ requests_issued < 3
    /\ fetch_outcome = "success" => requests_issued \in 1..3
    /\ fetch_outcome = "failure" => requests_issued = 3
    /\ pc \in {"first_sleep", "page_sleep", "link_done"} => fetch_outcome \in {"success", "failure"}

\* Page 2 was given up at its third request, after one recipe fetch of page 1
\* succeeded and another was given up.
C8_Witness ==
    /\ pc = "page_sleep"
    /\ fetch_outcome = "failure"
    /\ requests_issued = 3
    /\ attempt = 2
    /\ exhausted_links >= 1
    /\ Len(fetched_ok) >= 1

\* C9: after any run the three tables hold either entirely their prior
\* contents or entirely the new dataset.
C9_AllOrNothing ==
    pc = "terminated" => (db = PriorDb \/ db = NewDataset)

LoadOrder ==
    << <<"delete", "ingredients">>, <<"delete", "nutrition">>, <<"delete", "recipe_info">>,
       <<"commit">>,
       <<"append", "recipe_info">>, <<"append", "nutrition">>, <<"append", "ingredients">> >>

\* C10: the store operations issued are always a prefix of: delete
\* ingredients, delete nutrition, delete recipe_info, commit, append
\* recipe_info, append nutrition, append ingredients; the store keeps its
\* prior contents until the commit; a run that ends normally issued all seven
\* and leaves exactly the new dataset in the three tables.
C10_LoadOrder ==
    /\ Len(store_ops) <= Len(LoadOrder)
    /\ store_ops = SubSeq(LoadOrder, 1, Len(store_ops))
    /\ Len(store_ops) < 4 => db = PriorDb
    /\ Len(store_ops) >= 4 => \A t \in Tables : \A r \in 1..Len(db[t]) :
                                   db[t][r] \notin Range(PriorDb[t])
    /\ exit_status = "ok" => store_ops = LoadOrder /\ db = NewDataset

C10_Witness ==
    /\ exit_status = "ok"
    /\ Len(db.recipe_info) >= 2
    /\ Len(db.ingredients) >= 1
    /\ db.recipe_info[1].RecipeLink # db.recipe_info[2].RecipeLink

\* C13: every category column has one entry per aggregated recipe, and its
\* i-th entry is the status the i-th aggregated recipe reports for it.
C13_CategoryColumnsAligned ==
    \A c \in DOMAIN recipe_category_information :
       /\ Len(recipe_category_information[c]) = Len(fetched_ok)
       /\ \A i \in 1..Len(fetched_ok) :
             /\ c \in DOMAIN get_recipe_categories(fetched_ok[i])
             /\ recipe_category_information[c][i] = get_recipe_categories(fetched_ok[i])[c]

\* The rows of the first k frames of recipe_info, nutrition, ingredients.
LoadedPrefix(k) ==
    [recipe_info |-> IF k >= 1 THEN recipe_info_df ELSE << >>,
     nutrition |-> IF k >= 2 THEN nutrition_df ELSE << >>,
     ingredients |-> IF k >= 3 THEN ingredients_df ELSE << >>]

\* C14: when a store operation fails after the commit of the deletes, the
\* store holds no prior row, and exactly the new rows of the tables whose
\* append was issued before the failure: none, recipe_info, or recipe_info
\* and nutrition.
C14_PartialLoadOnFailure ==
    (exit_status = "LoadFailure" /\ Len(store_ops) >= 4) =>
       /\ Len(store_ops) - 4 \in 0..2
       /\ db = LoadedPrefix(Len(store_ops) - 4)
       /\ \A t \in Tables : \A r \in 1..Len(db[t]) : db[t][r] \notin Range(PriorDb[t])
       /\ db # PriorDb

\* The append of ingredients failed after recipe_info and nutrition were
\* appended.
C14_Witness ==
    /\ exit_status = "LoadFailure"
    /\ Len(store_ops) = 6
    /\ Len(db.recipe_info) >= 2
    /\ Len(db.nutrition) >= 2
    /\ db.ingredients = << >>
    /\ Len(ingredients_df) >= 1

\* C15: whenever a request is about to be issued, a delay has elapsed since
\* the previous request: the backoff delay of 5 before a retry of the same
\* URL, the rate-limit delay of 1 before the first request to the next URL.
C15_RequestsSpaced ==
    pc \in FetchSteps =>
       /\ attempt > 0 => since_request = 5
       /\ (attempt = 0 /\ pc # "first_fetch") => since_request = 1

\* Page 2 is about to be requested after a recipe of page 1 was given up.
C15_Witness ==
    /\ pc = "page_fetch"
    /\ page_number = 2
    /\ attempt = 0
    /\ since_request = 1
    /\ exhausted_links >= 1

\* The recipe_ids of a table's rows.
Ids(rows) == {rows[r].recipe_id : r \in 1..Len(rows)}

\* The tables as the open transaction sees them.
TransactionView == [t \in Tables |-> IF t \in txn THEN << >> ELSE db[t]]

Consistent(tables) ==
    Ids(tables.nutrition) \cup Ids(tables.ingredients) \subseteq Ids(tables.recipe_info)

\* C17: in every state of the run, in particular between the first delete
\* and the last append and where the load stops on a failure, every recipe_id
\* in nutrition or ingredients is also in recipe_info, in the committed store
\* and in the open transaction's view of it.
C17_ReferentialConsistency ==
    /\ Consistent(db)
    /\ Consistent(TransactionView)

\* The load stopped after nutrition was appended, with ingredient rows pending.
C17_Witness ==
    /\ exit_status = "LoadFailure"
    /\ Len(store_ops) = 6
    /\ Ids(db.nutrition) = {1, 2}
    /\ Ids(db.recipe_info) = {1, 2}

C17_WitnessInTransaction ==
    /\ pc = "delete_recipe_info"
    /\ txn = {"ingredients", "nutrition"}
    /\ Len(recipe_info_df) >= 1

SchemaKeys == {"kcal", "fat", "saturates", "carbs", "sugars", "fibre", "protein", "salt"}

OutputColumn ==
    [kcal |-> "kcal", fat |-> "Fat(g)", saturates |-> "Saturates(g)", carbs |-> "Carbs(g)",
     sugars |-> "Sugars(g)", fibre |-> "Fibre(g)", protein |-> "Protein(g)", salt |-> "Salt(g)"]

\* text is raw without its last character.
IsRawWithoutLast(text, raw) ==
    /\ Len(raw) >= 1
    /\ Len(text) = Len(raw) - 1
    /\ \A j \in 1..Len(text) : text[j] = raw[j]

C16_FixedSchemaRecord ==
    \A i \in 1..Len(recipe_nutritional_data) :
       LET record == recipe_nutritional_data[i]
           cells == site_nutrition[fetched_ok[i]]
       IN  /\ DOMAIN record = SchemaKeys
           /\ \A k \in SchemaKeys :
                 LET hits == {j \in 1..Len(cells) : cells[j][1] = k}
                 IN  IF hits = {} THEN record[k] = None
                     ELSE record[k] = cells[CHOOSE j \in hits : \A h \in hits : h <= j][2]

\* Link 1's page carried a cell outside the schema and a fat cell.
C16_Witness ==
    /\ Len(recipe_nutritional_data) >= 1
    /\ fetched_ok[1] = 1
    /\ site_nutrition[1] = << <<"iron", <<"g">>>>, <<"fat", <<"1", "2", "g">>>> >>
    /\ recipe_nutritional_data[1]["fat"] = <<"1", "2", "g">>
    /\ recipe_nutritional_data[1]["kcal"] = None

\* The page loop is over.
PageLoopDone == pc \in {"transform", "dispose"} \cup LoadSteps \/ exit_status \in {"ok", "LoadFailure", "ValueError:DataFrame"}

C18_TerminatesWithinBound ==
    <>[](/\ pc = "terminated"
         /\ exit_status # "running"
         /\ total_requests <= 3 * (1 + number_of_pages + Len(used_recipe_links)))

\* A run that needed all three requests for every fetch has ended normally.
C18_Witness ==
    /\ pc = "terminated"
    /\ exit_status = "ok"
    /\ Len(used_recipe_links) >= 1
    /\ total_requests = 3 * (1 + number_of_pages + Len(used_recipe_links))

====
